---------------------------- MODULE Spec2Model ----------------------------
(***************************************************************************)
(* Verification model of the dispatch layer of the federated search        *)
(* validator:                                                              *)
(*   - UIDManager (neurons/validators/proxy/uid_manager.py): the rotating  *)
(*     pool of miner uids, resync and get_miner_uid;                       *)
(*   - aggregate_search_results (neurons/validators/api.py): the merge of  *)
(*     the miners' per-tool results;                                       *)
(*   - response_stream_event (neurons/validators/api.py): the relay of the *)
(*     chunks of a streamed answer as server-sent events.                  *)
(*   - handle_search_links and the endpoints /search/links, /search/links/ *)
(*     web and /search/links/twitter (neurons/validators/api.py): the      *)
(*     aggregating mode.                                                   *)
(* One specification per component: SpecSelector and SpecQueries,          *)
(* SpecMerge, SpecLinks and SpecRelay. Each one leaves the other           *)
(* components' variables unchanged.                                        *)
(***************************************************************************)
EXTENDS Integers, Sequences, FiniteSets, TLC

(***************************************************************************)
(* Bounds of the model.                                                    *)
(***************************************************************************)
\* Number of uids of the metagraph (the length of metagraph.I).
NumUids == 3
\* UIDManager.max_miners_to_use is 100 in the source (uid_manager.py:19);
\* the model keeps it below NumUids so that the top slice cuts something off.
max_miners_to_use == 2
\* Queries in flight at the same time, each drawing one miner.
NumQueries == 2

VARIABLES
    \* ---- UIDManager
    I,                \* metagraph.I: the incentive of every uid
    uids,             \* self.uids: the uids not yet drawn in this cycle (a list)
    available_uids,   \* self.available_uids: argument of the last effective resync
    top_uids,         \* self.top_uids: the top slice computed by the last resync
    qheld,            \* per query: the uid it drew and still uses, or NoUid
    \* ---- history of the UIDManager (no counterpart in the code)
    result,           \* outcome of the call made by the last step
    drawn,            \* uids returned since the last call of resync (by any caller)
    lastResync,       \* the resync call of the last step: prior uids, argument, new uids,
                      \* and whether a call with an empty argument changed nothing
    qcur,             \* per query: its draw belongs to the current cycle
    cycBase,          \* the list the last rebuild put in uids, while cycValid
    cycValid,         \* no external resync and no metagraph sync since the last rebuild
    prevBase,         \* at a draw that refilled a used-up valid cycle: that cycle's cycBase
    \* ---- aggregate_search_results
    responses,        \* the argument responses: one record of fields per Synapse
    tools,            \* the argument tools: a list of tool names
    aggregated,       \* the dictionary aggregated, as the call left it
    mpc,              \* "idle", "call", then "returned" or the exception raised
    \* ---- the endpoints /search/links* and handle_search_links
    endpoint,         \* the endpoint function called
    body_tools,       \* body.tools: the list of tools of the request
    access_ok,        \* access_key == expected_access_key
    lpc,              \* "idle", "request", "collect", then "returned" or the HTTP error
    synapses,         \* the local synapses: the items collected from organic
    delivered,        \* what the caller got: the value returned or the exception raised
    \* ---- response_stream_event
    rpc,              \* "idle", "streaming", then "done"
    consumed,         \* the chunks the producer gave so far
    merged_chunks,    \* the local merged_chunks
    out,              \* the strings yielded so far
    raised            \* the text of the producer's exception, if it raised

selVars == <<I, uids, available_uids, top_uids, qheld, result, drawn, lastResync,
             qcur, cycBase, cycValid, prevBase>>

mergeVars == <<responses, tools, aggregated, mpc>>

relayVars == <<rpc, consumed, merged_chunks, out, raised>>

linkVars == <<endpoint, body_tools, access_ok, lpc, synapses, delivered>>

vars == <<selVars, mergeVars, relayVars, linkVars>>

(***************************************************************************)
(* Lists (Python lists are modelled as sequences).                         *)
(***************************************************************************)
Range(s) == {s[i] : i \in 1..Len(s)}

NoDup(s) == \A i, j \in 1..Len(s) : i # j => s[i] # s[j]

\* [x for x in s if x in S]
Filter(s, S) == LET keep(x) == x \in S IN SelectSeq(s, keep)

\* s[::-1]
Reverse(s) == [i \in 1..Len(s) |-> s[Len(s) + 1 - i]]

\* s[:n]
Take(s, n) == SubSeq(s, 1, IF n < Len(s) THEN n ELSE Len(s))

\* list.remove(x): removes the first occurrence of x.
ListRemoveNothing(s, x) == s

ListRemoveLast(s, x) == SubSeq(s, 1, Len(s) - 1)

ListRemove(s, x) ==
    LET i == CHOOSE k \in 1..Len(s) : s[k] = x /\ \A j \in 1..(k - 1) : s[j] # x
    IN  SubSeq(s, 1, i - 1) \o SubSeq(s, i + 1, Len(s))

(***************************************************************************)
(* The metagraph.                                                          *)
(***************************************************************************)
Uids == 0..(NumUids - 1)

NoUid == 0 - 1

\* The incentive vectors considered: no two uids have the same incentive, so
\* the order argsort gives is determined.
Incentives == {f \in [Uids -> 1..NumUids] : \A a, b \in Uids : a # b => f[a] # f[b]}

\* metagraph.I.argsort(): the uids by ascending incentive.
RECURSIVE ArgsortOf(_, _)
ArgsortOf(f, S) ==
    IF S = {} THEN <<>>
    ELSE LET m == CHOOSE x \in S : \A y \in S : f[x] <= f[y]
         IN  <<m>> \o ArgsortOf(f, S \ {m})

argsort(f) == ArgsortOf(f, DOMAIN f)

\* self.metagraph.I.argsort()[::-1][: self.max_miners_to_use]
TopUids(f) == Take(Reverse(argsort(f)), max_miners_to_use)

(***************************************************************************)
(* UIDManager.resync                                                       *)
(***************************************************************************)
\* The state of a UIDManager, as a record.
SelState(u, a, t) == [uids |-> u, available_uids |-> a, top_uids |-> t]

\* Lines 35-36: reuse the uids of the previous cycle that are still available.
KeepAll(u, S) == u

KeepAvailable(u, S) == IF Len(u) # 0 THEN Filter(u, S) ELSE u

\* Lines 39-44: with nothing left, take the top uids that are available.
RebuildUnfiltered(kept, top, S) == IF Len(kept) = 0 THEN top ELSE kept

Rebuild(kept, top, S) == IF Len(kept) = 0 THEN Filter(top, S) ELSE kept

\* resync without the return of lines 27-28.
ResyncAlways(st, S) ==
    LET top == TopUids(I)
    IN  SelState(Rebuild(KeepAvailable(st.uids, S), top, S), S, top)

\* resync(S) run on the state st: the state it leaves.
ResyncResult(st, S) ==
    IF Cardinality(S) = 0
    THEN st
    ELSE LET top == TopUids(I)
         IN  SelState(Rebuild(KeepAvailable(st.uids, S), top, S), S, top)

\* Whether resync(S), run on the state st, refills uids from the top uids.
Rebuilds(st, S) == Cardinality(S) # 0 /\ Len(KeepAvailable(st.uids, S)) = 0

\* The list a rebuild would put in uids, as the last resync computed it: the
\* top uids that were available.
CandidatePool == Filter(top_uids, available_uids)

(***************************************************************************)
(* UIDManager.get_miner_uid                                                *)
(***************************************************************************)
\* Lines 50-51: an empty list is refilled by a resync with the last argument.
RefillSkipped(st) == st

Refill(st) == IF Len(st.uids) = 0 THEN ResyncResult(st, st.available_uids) ELSE st

\* Line 53: random.choice(self.uids) may return any element of the list.
Choices(u) == {u[i] : i \in 1..Len(u)}

NoResult == [kind |-> "none", uid |-> NoUid]

\* The record of a call of resync: the list before it, its argument, the list
\* after it and, for a call with an empty argument, whether it left uids,
\* available_uids and top_uids as they were.
ResyncCall(st, S, r) ==
    [called |-> TRUE, D |-> st.uids, S |-> S, after |-> r.uids,
     kept |-> (Cardinality(S) = 0) => (r = st)]

NoCall == [called |-> FALSE, D |-> <<>>, S |-> {}, after |-> <<>>, kept |-> TRUE]

Queries == 1..NumQueries

(***************************************************************************)
(* Steps of the selector.                                                  *)
(***************************************************************************)
\* No merge and no relay is running.
MergeIdle ==
    /\ responses = <<>>
    /\ tools = <<>>
    /\ aggregated = <<>>
    /\ mpc = "idle"

LinksIdle ==
    /\ endpoint = "none"
    /\ body_tools = <<>>
    /\ access_ok = FALSE
    /\ lpc = "idle"
    /\ synapses = <<>>
    /\ delivered = <<>>

RelayIdle ==
    /\ rpc = "idle"
    /\ consumed = <<>>
    /\ merged_chunks = <<>>
    /\ out = <<>>
    /\ raised = <<>>

SelectorIdle ==
    /\ I = [u \in Uids |-> u + 1]
    /\ uids = <<>>
    /\ available_uids = {}
    /\ top_uids = <<>>
    /\ qheld = [q \in Queries |-> NoUid]
    /\ result = NoResult
    /\ drawn = <<>>
    /\ lastResync = NoCall
    /\ qcur = [q \in Queries |-> FALSE]
    /\ cycBase = <<>>
    /\ cycValid = FALSE
    /\ prevBase = <<>>

InitSelector ==
    /\ MergeIdle
    /\ RelayIdle
    /\ LinksIdle
    /\ I \in Incentives
    /\ uids = <<>>
    /\ available_uids = {}
    /\ top_uids = <<>>
    /\ qheld = [q \in Queries |-> NoUid]
    /\ result = NoResult
    /\ drawn = <<>>
    /\ lastResync = NoCall
    /\ qcur = [q \in Queries |-> FALSE]
    /\ cycBase = <<>>
    /\ cycValid = FALSE
    /\ prevBase = <<>>

\* The variables of the history of the calls, and those of the queries.
histVars == <<drawn, lastResync, cycBase, cycValid, prevBase>>

queryVars == <<qheld, qcur>>

\* The validator refreshes the metagraph: the incentives change. One step
\* exchanges the incentives of two uids next to each other in the ranking;
\* any incentive vector is reached by successive steps.
MetagraphSync ==
    /\ \E a, b \in Uids :
          /\ I[b] = I[a] + 1
          /\ I' = [I EXCEPT ![a] = I[b], ![b] = I[a]]
    /\ result' = NoResult
    /\ UNCHANGED <<uids, available_uids, top_uids>>

\* resync(S), lines 23-44.
Resync(S) ==
    LET r == ResyncResult(SelState(uids, available_uids, top_uids), S)
    IN  /\ uids' = r.uids
        /\ available_uids' = r.available_uids
        /\ top_uids' = r.top_uids
        /\ result' = [kind |-> "resync", uid |-> NoUid]
        /\ UNCHANGED I

\* get_miner_uid(), lines 46-55: the refill of an empty list, then either the
\* IndexError of random.choice on a list still empty, or the choice and its
\* removal from the list.
GetMinerUid ==
    LET r == Refill(SelState(uids, available_uids, top_uids))
    IN  /\ available_uids' = r.available_uids
        /\ top_uids' = r.top_uids
        /\ UNCHANGED I
        /\ IF Len(r.uids) = 0
           THEN /\ uids' = r.uids
                /\ result' = [kind |-> "IndexError", uid |-> NoUid]
           ELSE \E uid \in Choices(r.uids) :
                /\ uids' = ListRemove(r.uids, uid)
                /\ result' = [kind |-> "return", uid |-> uid]

\* Whether a call of resync(S), or of get_miner_uid(), made now starts a new
\* cycle: it refills uids from the top uids.
ResyncRebuilds(S) == Rebuilds(SelState(uids, available_uids, top_uids), S)

DrawRebuilds == Len(uids) = 0 /\ ResyncRebuilds(available_uids)

(***************************************************************************)
(* SpecSelector: the calls of resync and get_miner_uid in any order, the   *)
(* metagraph changing in between, with the history of the calls.           *)
(***************************************************************************)
metagraph_sync ==
    /\ MetagraphSync
    /\ lastResync' = NoCall
    /\ cycValid' = FALSE
    /\ cycBase' = <<>>
    /\ prevBase' = <<>>
    /\ UNCHANGED <<drawn, queryVars, mergeVars, relayVars, linkVars>>

resync(S) ==
    /\ Resync(S)
    /\ drawn' = <<>>
    /\ lastResync' = ResyncCall(SelState(uids, available_uids, top_uids), S,
                                SelState(uids', available_uids', top_uids'))
    /\ cycValid' = ResyncRebuilds(S)
    /\ cycBase' = IF ResyncRebuilds(S) THEN uids' ELSE <<>>
    /\ prevBase' = <<>>
    /\ UNCHANGED <<queryVars, mergeVars, relayVars, linkVars>>

get_miner_uid ==
    LET self == Len(uids) = 0
        st == SelState(uids, available_uids, top_uids)
        refilled == Refill(st).uids
    IN  /\ GetMinerUid
        /\ lastResync' = IF self THEN ResyncCall(st, available_uids, Refill(st))
                         ELSE NoCall
        /\ drawn' = IF result'.kind # "return" THEN <<>>
                    ELSE IF self THEN <<result'.uid>>
                    ELSE Append(drawn, result'.uid)
        /\ prevBase' = IF self /\ cycValid THEN cycBase ELSE <<>>
        /\ cycValid' = IF DrawRebuilds THEN TRUE ELSE cycValid
        /\ cycBase' = IF DrawRebuilds THEN refilled ELSE cycBase
        /\ UNCHANGED <<queryVars, mergeVars, relayVars, linkVars>>

NextSelector ==
    \/ metagraph_sync
    \/ \E S \in SUBSET Uids : resync(S)
    \/ get_miner_uid

SpecSelector == InitSelector /\ [][NextSelector]_vars

(***************************************************************************)
(* SpecQueries: queries in flight on one event loop. Each one draws a      *)
(* miner, uses it and ends; resync and get_miner_uid are synchronous       *)
(* methods, so each call is one step. The incentives are any vector, the   *)
(* same for the whole run.                                                 *)
(***************************************************************************)
query_resync(S) ==
    /\ Resync(S)
    /\ qcur' = IF ResyncRebuilds(S) THEN [p \in Queries |-> FALSE] ELSE qcur
    /\ UNCHANGED <<histVars, qheld, mergeVars, relayVars, linkVars>>

\* Query q calls get_miner_uid() and keeps the uid it returns.
query_draw(q) ==
    /\ qheld[q] = NoUid
    /\ GetMinerUid
    /\ qheld' = IF result'.kind = "return" THEN [qheld EXCEPT ![q] = result'.uid] ELSE qheld
    /\ qcur' = [p \in Queries |->
                  IF p = q THEN result'.kind = "return"
                  ELSE IF DrawRebuilds THEN FALSE ELSE qcur[p]]
    /\ UNCHANGED <<histVars, mergeVars, relayVars, linkVars>>

\* Query q ends: it no longer uses the miner it drew.
query_finish(q) ==
    /\ qheld[q] # NoUid
    /\ qheld' = [qheld EXCEPT ![q] = NoUid]
    /\ qcur' = [qcur EXCEPT ![q] = FALSE]
    /\ result' = NoResult
    /\ UNCHANGED <<I, uids, available_uids, top_uids, histVars, mergeVars, relayVars, linkVars>>

NextQueries ==
    \/ \E S \in SUBSET Uids : query_resync(S)
    \/ \E q \in Queries : query_draw(q)
    \/ \E q \in Queries : query_finish(q)

SpecQueries == InitSelector /\ [][NextQueries]_vars

(***************************************************************************)
(* aggregate_search_results                                                *)
(***************************************************************************)
\* The first tools of available_tools (api.py lines 34-44), with the field of
\* the Synapse that field_mapping (lines 154-164) gives each of them.
available_tools == <<"Twitter Search", "Google Search">>

field_mapping == [t \in Range(available_tools) |->
                     IF t = "Twitter Search" THEN "miner_tweets" ELSE "search_results"]

FieldNames == {field_mapping[t] : t \in Range(available_tools)}

\* The values of a field. A list is the sequence of its items, a dictionary
\* the sequence of its entries, any other value a sequence of one item; the
\* empty sequence is the empty list, the empty dictionary, or a value such as
\* "" or 0.
Value(k, v) == [kind |-> k, val |-> v]

None == Value("none", <<>>)

EmptyDict == Value("dict", <<>>)

FieldValues ==
    {None, Value("list", <<>>),
     Value("list", <<"a", "b">>), Value("list", <<"c">>),
     Value("dict", <<"x:1">>), Value("dict", <<"y:2">>),
     Value("other", <<"s">>)}

\* `if result:` is Python's truth test: None, an empty list, an empty
\* dictionary, "" and 0 are false.
Truthy(v) == v.kind # "none" /\ Len(v.val) # 0

Synapses == [FieldNames -> FieldValues]

\* The sequences over S of length at most n.
SeqsUpTo(S, n) == UNION {[1..k -> S] : k \in 0..n}

\* The state of the loops of lines 167-194: the dictionary and the exception
\* raised, if any.
MergeState(agg, exc) == [agg |-> agg, exc |-> exc]

\* Lines 173-194: one pass of the inner loop, for the value result of the
\* tool's field. list.extend exists on lists only: on a dictionary or on
\* another value the call raises AttributeError.
MergeOneCombining(agg, tool, res) ==
    IF ~Truthy(res) THEN MergeState(agg, "")
    ELSE IF res.kind = "list"
    THEN LET cur == IF agg[tool] = None THEN Value("list", <<>>) ELSE agg[tool]
         IN  IF cur.kind = "list"
             THEN MergeState([agg EXCEPT ![tool] = Value("list", cur.val \o res.val)], "")
             ELSE MergeState([agg EXCEPT ![tool] = cur], "AttributeError")
    ELSE IF res.kind = "dict" /\ agg[tool].kind = "dict"
    THEN MergeState([agg EXCEPT ![tool] = Value("dict", agg[tool].val \o res.val)], "")
    ELSE MergeState([agg EXCEPT ![tool] = res], "")

MergeOne(agg, tool, res) ==
    IF ~Truthy(res) THEN MergeState(agg, "")
    ELSE IF res.kind = "list"
    THEN LET cur == IF agg[tool] = None THEN Value("list", <<>>) ELSE agg[tool]
         IN  IF cur.kind = "list"
             THEN MergeState([agg EXCEPT ![tool] = Value("list", cur.val \o res.val)], "")
             ELSE MergeState([agg EXCEPT ![tool] = cur], "AttributeError")
    ELSE MergeState([agg EXCEPT ![tool] = res], "")

\* Lines 167-194: the passes for the responses from the i-th on, in the i-th
\* for the tools from the j-th on. For a tool that field_mapping does not
\* have, field_mapping.get gives None and getattr(synapse, None) raises
\* TypeError.
RECURSIVE MergeFrom(_, _, _, _, _)
MergeFrom(st, resps, tls, i, j) ==
    IF st.exc # "" \/ i > Len(resps) THEN st
    ELSE IF j > Len(tls) THEN MergeFrom(st, resps, tls, i + 1, 1)
    ELSE IF tls[j] \notin DOMAIN field_mapping THEN MergeState(st.agg, "TypeError")
    ELSE MergeFrom(MergeOne(st.agg, tls[j], resps[i][field_mapping[tls[j]]]),
                   resps, tls, i, j + 1)

\* Lines 197-199: None becomes the empty dictionary.
FillEmptyKeepNone(agg) == agg

FillEmpty(agg) == [t \in DOMAIN agg |-> IF agg[t] = None THEN EmptyDict ELSE agg[t]]

\* aggregate_search_results(resps, tls), lines 145-201.
AggregateSearchResults(resps, tls) ==
    LET st == MergeFrom(MergeState([t \in Range(tls) |-> None], ""), resps, tls, 1, 1)
    IN  IF st.exc # "" THEN st ELSE MergeState(FillEmpty(st.agg), "")

\* The lists of tools of a call: any list of names of available_tools, a name
\* may come several times (search_links_web passes the caller's list on).
MaxTools == 2

\* The responses of a call.
MaxResponses == 2

InitMerge ==
    /\ SelectorIdle
    /\ RelayIdle
    /\ LinksIdle
    /\ responses \in SeqsUpTo(Synapses, MaxResponses)
    /\ tools \in SeqsUpTo(Range(available_tools), MaxTools)
    /\ aggregated = <<>>
    /\ mpc = "call"

aggregate_search_results ==
    /\ mpc = "call"
    /\ LET st == AggregateSearchResults(responses, tools)
       IN  /\ aggregated' = st.agg
           /\ mpc' = IF st.exc = "" THEN "returned" ELSE st.exc
    /\ UNCHANGED <<responses, tools, selVars, relayVars, linkVars>>

NextMerge == aggregate_search_results

SpecMerge == InitMerge /\ [][NextMerge]_vars

(***************************************************************************)
(* handle_search_links and its three endpoints                             *)
(***************************************************************************)
\* twitter_tool, api.py line 46.
twitter_tool == <<"Twitter Search">>

Endpoints == {"search_links_web", "search_links_twitter", "search_links"}

\* The names a request may give in body.tools: body.tools is a List[str], so
\* it may hold any names, among them names that are no key of field_mapping
\* (such as the "Bing Search" of SEARCH_DESCRIPTION), and may repeat a name.
RequestTools == Range(available_tools) \cup {"Bing Search"}

\* The list of tools each endpoint passes to handle_search_links (lines 267,
\* 280 and 293): search_links_web passes the tools of the request without
\* "Twitter Search", the two others a list of the module.
EndpointTools(e, requested) ==
    IF e = "search_links_web"
    THEN LET web(t) == t # "Twitter Search" IN SelectSeq(requested, web)
    ELSE IF e = "search_links_twitter" THEN twitter_tool
    ELSE available_tools

\* What the caller of handle_search_links gets: the dictionary returned, or
\* the HTTPException raised.
Returned(agg) == [kind |-> "map", status |-> 200, value |-> agg]

Failure(code) == [kind |-> "HTTPException", status |-> code, value |-> <<>>]

\* Lines 228-234: the result of the merge is returned; an exception of the
\* merge is caught and HTTPException(500) raised in its place.
HandlerOutcomePartial(st) == Returned(st.agg)

HandlerOutcome(st) == IF st.exc = "" THEN Returned(st.agg) ELSE Failure(500)

\* The items organic may give: Synapses whose fields are None, a list or a
\* dictionary.
LinkValues == {None, Value("list", <<"c">>), Value("dict", <<"x:1">>)}

LinkSynapses == [FieldNames -> LinkValues]

InitLinks ==
    /\ SelectorIdle
    /\ MergeIdle
    /\ RelayIdle
    /\ endpoint \in Endpoints
    /\ body_tools \in SeqsUpTo(RequestTools, MaxTools)
    /\ access_ok \in BOOLEAN
    /\ lpc = "request"
    /\ synapses = <<>>
    /\ delivered = <<>>

\* The endpoint function builds the list of tools and calls
\* handle_search_links, whose lines 213-217 check the access key (401 when
\* it is wrong) and start with no synapses.
links_request ==
    /\ lpc = "request"
    /\ tools' = EndpointTools(endpoint, body_tools)
    /\ IF access_ok
       THEN /\ lpc' = "collect"
            /\ delivered' = delivered
       ELSE /\ lpc' = "HTTP401"
            /\ delivered' = Append(delivered, Failure(401))
    /\ UNCHANGED <<endpoint, body_tools, access_ok, synapses, responses, aggregated, mpc,
                   selVars, relayVars>>

\* Lines 221-226: organic gives one more item, which is appended.
links_collect(item) ==
    /\ lpc = "collect"
    /\ Len(synapses) < MaxResponses
    /\ synapses' = Append(synapses, item)
    /\ UNCHANGED <<endpoint, body_tools, access_ok, lpc, delivered, mergeVars,
                   selVars, relayVars>>

\* Lines 221-226 and 233-234: organic raises; HTTPException(500) is raised.
links_organic_raises ==
    /\ lpc = "collect"
    /\ lpc' = "HTTP500"
    /\ delivered' = Append(delivered, Failure(500))
    /\ UNCHANGED <<endpoint, body_tools, access_ok, synapses, mergeVars, selVars, relayVars>>

\* Lines 228-234: organic is exhausted; the synapses are merged and the
\* dictionary returned, or the merge raises and HTTPException(500) is raised.
links_aggregate ==
    /\ lpc = "collect"
    /\ LET st == AggregateSearchResults(synapses, tools)
       IN  /\ responses' = synapses
           /\ aggregated' = st.agg
           /\ mpc' = IF st.exc = "" THEN "returned" ELSE st.exc
           /\ lpc' = IF st.exc = "" THEN "returned" ELSE "HTTP500"
           /\ delivered' = Append(delivered, HandlerOutcome(st))
    /\ UNCHANGED <<endpoint, body_tools, access_ok, synapses, tools, selVars, relayVars>>

NextLinks ==
    \/ links_request
    \/ \E item \in LinkSynapses : links_collect(item)
    \/ links_organic_raises
    \/ links_aggregate

SpecLinks == InitLinks /\ [][NextLinks]_vars

(***************************************************************************)
(* response_stream_event                                                   *)
(***************************************************************************)
\* A string is the sequence of its characters.
NL == "\n"

Chars == {"x", NL}

MaxChunkLen == 4

MaxChunks == 2

Chunks == SeqsUpTo(Chars, MaxChunkLen)

\* str(e) of the exception the producer raises.
ErrorTexts == {<<>>, <<"x">>, <<"x", NL>>}

\* chunk.split("\n")
RECURSIVE Split(_)
Split(s) ==
    IF \E i \in 1..Len(s) : s[i] = NL
    THEN LET i == CHOOSE k \in 1..Len(s) : s[k] = NL /\ \A j \in 1..(k - 1) : s[j] # NL
         IN  <<SubSeq(s, 1, i - 1)>> \o Split(SubSeq(s, i + 1, Len(s)))
    ELSE <<s>>

\* sep.join(parts)
RECURSIVE Join(_, _)
Join(parts, sep) ==
    IF Len(parts) = 0 THEN <<>>
    ELSE IF Len(parts) = 1 THEN parts[1]
    ELSE parts[1] \o sep \o Join(Tail(parts), sep)

DataPrefix == <<"d", "a", "t", "a", ":", " ">>

\* f"data: {line if line else ' '}"
DataLineAsIs(line) == DataPrefix \o line

DataLine(line) == DataPrefix \o (IF Len(line) # 0 THEN line ELSE <<" ">>)

\* Line 139: "\n".join(f"data: ..." for line in lines)
SseDataEventPerLine(chunk) ==
    LET lines == Split(chunk)
    IN  Join([k \in 1..Len(lines) |-> DataLine(lines[k])], <<NL, NL>>)

SseData(chunk) ==
    LET lines == Split(chunk)
    IN  Join([k \in 1..Len(lines) |-> DataLine(lines[k])], <<NL>>)

\* Line 140: f"{sse_data}\n\n", the string yielded for a chunk.
Frame(chunk) == SseData(chunk) \o <<NL, NL>>

\* json.dumps escapes a line break of the text as the two characters \n.
RECURSIVE JsonEscape(_)
JsonEscape(t) ==
    IF Len(t) = 0 THEN <<>>
    ELSE (IF Head(t) = NL THEN <<"\\", "n">> ELSE <<Head(t)>>) \o JsonEscape(Tail(t))

\* json.dumps({'error': str(e)})
JsonDumpsError(t) ==
    <<"{", "\"", "e", "r", "r", "o", "r", "\"", ":", " ", "\"">> \o JsonEscape(t) \o <<"\"", "}">>

\* Line 143: f"data: {json.dumps({'error': str(e)})}\n\n"
ErrorEvent(t) == DataPrefix \o JsonDumpsError(t) \o <<NL, NL>>

InitRelay ==
    /\ SelectorIdle
    /\ MergeIdle
    /\ LinksIdle
    /\ rpc = "streaming"
    /\ consumed = <<>>
    /\ merged_chunks = <<>>
    /\ out = <<>>
    /\ raised = <<>>

\* Lines 134-140: the producer gives the chunk c; its framed form is yielded.
relay_chunk_out_of_order(c) ==
    /\ rpc = "streaming"
    /\ Len(consumed) < MaxChunks
    /\ consumed' = Append(consumed, c)
    /\ merged_chunks' = merged_chunks \o c
    /\ out' = <<Frame(c)>> \o out
    /\ UNCHANGED <<rpc, raised, selVars, mergeVars, linkVars>>

relay_chunk(c) ==
    /\ rpc = "streaming"
    /\ Len(consumed) < MaxChunks
    /\ consumed' = Append(consumed, c)
    /\ merged_chunks' = merged_chunks \o c
    /\ out' = Append(out, Frame(c))
    /\ UNCHANGED <<rpc, raised, selVars, mergeVars, linkVars>>

\* The producer is exhausted: the generator returns.
relay_end ==
    /\ rpc = "streaming"
    /\ rpc' = "done"
    /\ UNCHANGED <<consumed, merged_chunks, out, raised, selVars, mergeVars, linkVars>>

\* Lines 141-143: the producer (or the preparation of the query) raises an
\* exception of text t: one event with the text is yielded, and the generator
\* returns.
relay_error_swallowed(t) ==
    /\ rpc = "streaming"
    /\ raised' = <<t>>
    /\ rpc' = "done"
    /\ UNCHANGED <<consumed, merged_chunks, out, selVars, mergeVars, linkVars>>

relay_error(t) ==
    /\ rpc = "streaming"
    /\ out' = Append(out, ErrorEvent(t))
    /\ raised' = <<t>>
    /\ rpc' = "done"
    /\ UNCHANGED <<consumed, merged_chunks, selVars, mergeVars, linkVars>>

NextRelay ==
    \/ \E c \in Chunks : relay_chunk(c)
    \/ relay_end
    \/ \E t \in ErrorTexts : relay_error(t)

SpecRelay == InitRelay /\ [][NextRelay]_vars

(***************************************************************************)
(* Properties of the selector.                                             *)
(***************************************************************************)
\* C1 (No-repeat-until-resync): the uids returned by consecutive calls of
\* get_miner_uid with no call of resync in between (neither by the validator
\* nor by get_miner_uid itself on an empty list) are pairwise distinct, for
\* every such run of calls no longer than the candidate pool.
C1_NoRepeatUntilResync ==
    \A i, j \in 1..Len(drawn) :
        (i < j /\ j - i + 1 <= Len(CandidatePool)) => drawn[i] # drawn[j]

\* C1, its case: two or more uids were returned since the last resync, as
\* many as the candidate pool holds.
C1_Witness == Len(drawn) >= 2 /\ Len(drawn) = Len(CandidatePool)

\* C2 (Self-healing refill), as claimed: get_miner_uid fails only if the
\* last-known reachable set is empty; with a non-empty one it returns a uid.
C2_DrawFailsOnlyWithoutReachable ==
    result.kind = "IndexError" => available_uids = {}

\* C3 (Resync intersection), as claimed, for every argument S: after a call
\* resync(S) in a state whose list is D, the new list is within D \cap S or,
\* if D \cap S is empty, it is the whole candidate pool just computed.
C3_ResyncIntersectionAnyArgument ==
    lastResync.called =>
        \/ Range(lastResync.after) \subseteq (Range(lastResync.D) \cap lastResync.S)
        \/ /\ Range(lastResync.D) \cap lastResync.S = {}
           /\ lastResync.after = CandidatePool

\* C3, as amended: the same for every non-empty argument S (resync of an
\* empty S leaves the list as it is): with D \cap S non-empty the new list is
\* D restricted to S, in D's order; otherwise it is the whole candidate pool
\* just computed. The refill inside get_miner_uid is such a call, with D empty.
C3_ResyncIntersection ==
    (lastResync.called /\ lastResync.S # {}) =>
        IF Range(lastResync.D) \cap lastResync.S # {}
        THEN /\ lastResync.after = Filter(lastResync.D, lastResync.S)
             /\ Range(lastResync.after) = Range(lastResync.D) \cap lastResync.S
        ELSE lastResync.after = CandidatePool

\* C3, its case: the validator's resync with a non-empty argument just ran on
\* a list that had uids in the argument and uids outside of it, and kept the
\* former.
C3_Witness ==
    /\ result.kind = "resync"
    /\ lastResync.called
    /\ Range(lastResync.D) \cap lastResync.S # {}
    /\ Range(lastResync.D) \ lastResync.S # {}
    /\ uids = lastResync.after

\* C4 (Concurrent draws): no two queries in flight that drew in the same
\* cycle hold the same uid.
C4_ConcurrentDrawsDistinct ==
    \A p, q \in Queries :
        (p # q /\ qcur[p] /\ qcur[q]) => qheld[p] # qheld[q]

\* C4, its case: two queries in flight drew in the same cycle.
C4_Witness == \E p, q \in Queries : p # q /\ qcur[p] /\ qcur[q]

\* C10 (Full draw cycle): from a list freshly rebuilt as the candidate pool,
\* with no resync by the validator and the incentives unchanged, the uids
\* returned are distinct members of the pool and, together with the uids left,
\* make up the pool (so the first n calls return a permutation of it); the
\* call after the n-th refills the list with the same pool (n >= 1) and
\* returns a member of it.
C10_FullDrawCycle ==
    /\ cycValid =>
          /\ cycBase = CandidatePool
          /\ NoDup(drawn)
          /\ Range(drawn) \cup Range(uids) = Range(cycBase)
          /\ Len(drawn) + Len(uids) = Len(cycBase)
    /\ prevBase # <<>> =>
          /\ result.kind = "return"
          /\ result.uid \in Range(prevBase)
          /\ cycBase = prevBase

\* C10, its case: a whole pool of max_miners_to_use uids was drawn and the
\* next call refilled the list.
C10_Witness == Len(prevBase) = max_miners_to_use /\ result.kind = "return"

\* The uids of S by descending incentive, the first max_miners_to_use of them.
TopOfReachable(S) == Take(Filter(Reverse(argsort(I)), S), max_miners_to_use)

\* C11 (Top-K of reachable), as claimed: whenever a resync with a non-empty
\* argument S rebuilds the list (the list before was empty, or none of its
\* uids is in S), the new list is the max_miners_to_use uids of highest
\* incentive among S, by descending incentive (all of S when S has no more).
C11_TopOfReachable ==
    (lastResync.called /\ lastResync.S # {}
       /\ Range(lastResync.D) \cap lastResync.S = {}) =>
        lastResync.after = TopOfReachable(lastResync.S)

\* C14 (Empty resync is a no-op): a call of resync with an empty argument
\* leaves the list uids, the top uids (so the candidate pool) and the
\* last-known reachable set available_uids as they were.
C14_EmptyResyncNoOp ==
    (lastResync.called /\ lastResync.S = {}) =>
        /\ lastResync.kept
        /\ lastResync.after = lastResync.D

\* C14, its case: the validator called resync with an empty argument while
\* the list still held uids and a reachable set was known.
C14_Witness ==
    /\ result.kind = "resync"
    /\ lastResync.called
    /\ lastResync.S = {}
    /\ Len(lastResync.D) # 0
    /\ available_uids # {}

\* C16 (DrawSet invariant), as claimed: in every state reached by calls of
\* resync (any arguments, the incentives changing in between) and of
\* get_miner_uid, the uids of the list are all in the candidate pool computed
\* by the most recent resync, and in the reachable set.
C16_DrawSetWithinPool ==
    Range(uids) \subseteq (Range(CandidatePool) \cap available_uids)

\* C17 (Draw within the reachable set): every uid get_miner_uid returns is in
\* the last-known reachable set, the argument of the most recent resync with
\* a non-empty argument; the list never holds a uid outside of it, so a uid
\* that dropped out at a resync is not returned afterwards.
C17_DrawnReachable ==
    /\ Range(uids) \subseteq available_uids
    /\ result.kind = "return" => result.uid \in available_uids

\* C17, its case: a uid of the top uids is not in the reachable set, the
\* validator's last resync kept part of a list and dropped the rest, and a
\* call of get_miner_uid returned a uid since.
C17_Witness ==
    /\ result.kind = "return"
    /\ Range(top_uids) \ available_uids # {}
    /\ Len(drawn) >= 1
    /\ available_uids # Uids

(***************************************************************************)
(* Properties of the merge.                                                *)
(***************************************************************************)
\* The value the i-th response has for the tool t.
FieldOf(i, t) == responses[i][field_mapping[t]]

\* The responses whose value for t is not empty.
NonEmptyIdx(t) == {i \in 1..Len(responses) : Truthy(FieldOf(i, t))}

AllOfKind(t, k) == \A i \in NonEmptyIdx(t) : FieldOf(i, t).kind = k

LastNonEmpty(t) == CHOOSE i \in NonEmptyIdx(t) : \A j \in NonEmptyIdx(t) : j <= i

\* The non-empty values for t from the i-th response on, one after the other.
RECURSIVE ConcatFrom(_, _)
ConcatFrom(t, i) ==
    IF i > Len(responses) THEN <<>>
    ELSE (IF Truthy(FieldOf(i, t)) THEN FieldOf(i, t).val ELSE <<>>) \o ConcatFrom(t, i + 1)

MergeEnded == mpc \notin {"idle", "call"}

\* C5 (Merge totality), as claimed: for every sequence of responses and every
\* list of tools the merge returns a dictionary whose keys are exactly the
\* tools.
C5_MergeTotality ==
    MergeEnded => (mpc = "returned" /\ DOMAIN aggregated = Range(tools))

\* C6 (Merge list-accumulation), as claimed: when the non-empty values of the
\* responses for a tool are all lists, the merged value of the tool is their
\* concatenation in the order of the responses, each item once.
C6_ListAccumulation ==
    mpc = "returned" =>
        \A t \in Range(tools) :
            (NonEmptyIdx(t) # {} /\ AllOfKind(t, "list")) =>
                aggregated[t] = Value("list", ConcatFrom(t, 1))

\* C7 (Merge map-replace): when the non-empty values of the responses for a
\* tool are dictionaries, the merged value of the tool is exactly the last of
\* them in the order of the responses, with nothing of the earlier ones; and
\* a merge of dictionaries only does not raise.
C7_MapReplace ==
    /\ mpc = "returned" =>
          \A t \in Range(tools) :
              (NonEmptyIdx(t) # {} /\ AllOfKind(t, "dict")) =>
                  aggregated[t] = FieldOf(LastNonEmpty(t), t)
    /\ (MergeEnded /\ \A t \in Range(tools) : AllOfKind(t, "dict")) => mpc = "returned"

\* C7, its case: two responses gave the dictionaries {x:1} then {y:2} for a
\* tool, and the merge returned {y:2} for it.
C7_Witness ==
    /\ mpc = "returned"
    /\ Len(responses) = 2
    /\ \E t \in Range(tools) :
          /\ FieldOf(1, t) = Value("dict", <<"x:1">>)
          /\ FieldOf(2, t) = Value("dict", <<"y:2">>)
          /\ aggregated[t] = Value("dict", <<"y:2">>)

\* C13 (Merge does not abort on unexpected shapes), as claimed: whatever the
\* values of the responses for a tool (lists, dictionaries, other values or
\* empty ones, in any order), the merge returns a dictionary: a value that is
\* neither a list nor a dictionary is copied as it is in place of the value
\* before it, and the lists and dictionaries of the other tools are merged
\* as usual.
C13_NoAbortOnShapes ==
    MergeEnded =>
        /\ mpc = "returned"
        /\ \A t \in Range(tools) :
              /\ (NonEmptyIdx(t) # {} /\ FieldOf(LastNonEmpty(t), t).kind = "other") =>
                    aggregated[t] = FieldOf(LastNonEmpty(t), t)
              /\ (NonEmptyIdx(t) # {} /\ AllOfKind(t, "dict")) =>
                    aggregated[t] = FieldOf(LastNonEmpty(t), t)

\* C18 (Empty default): in the dictionary the merge returns no value is None,
\* and the value of a tool is the empty dictionary exactly when the value of
\* every response for that tool was None or empty.
C18_EmptyDefault ==
    mpc = "returned" =>
        \A t \in Range(tools) :
            /\ aggregated[t] # None
            /\ (aggregated[t] = EmptyDict) <=> (NonEmptyIdx(t) = {})

\* C18, its case: of two tools asked of two responses, one got None and an
\* empty list only and came out as the empty dictionary, the other got a
\* value and kept it.
C18_Witness ==
    /\ mpc = "returned"
    /\ Len(responses) = 2
    /\ \E t, u \in Range(tools) :
          /\ FieldOf(1, t) = None
          /\ FieldOf(2, t) = Value("list", <<>>)
          /\ aggregated[t] = EmptyDict
          /\ NonEmptyIdx(u) # {}
          /\ aggregated[u] # EmptyDict

(***************************************************************************)
(* Properties of the aggregating mode.                                     *)
(***************************************************************************)
LinksEnded == lpc \in {"returned", "HTTP401", "HTTP500"}

\* C12 (Aggregation is all-or-nothing): a call of handle_search_links gives
\* its caller nothing before it ends and, when it ends, exactly one thing:
\* either the dictionary merged from all the synapses collected, whole (a
\* value for every tool, none of them None), or one HTTPException; when
\* organic or the merge raised, it is the exception, and the dictionary the
\* merge had begun is not returned.
C12_AllOrNothing ==
    /\ lpc \in {"request", "collect"} => Len(delivered) = 0
    /\ LinksEnded =>
          /\ Len(delivered) = 1
          /\ IF delivered[1].kind = "map"
             THEN /\ lpc = "returned"
                  /\ mpc = "returned"
                  /\ responses = synapses
                  /\ AggregateSearchResults(synapses, tools).exc = ""
                  /\ delivered[1].value = AggregateSearchResults(synapses, tools).agg
                  /\ DOMAIN delivered[1].value = Range(tools)
                  /\ \A t \in Range(tools) : delivered[1].value[t] # None
             ELSE /\ delivered[1].kind = "HTTPException"
                  /\ lpc = IF access_ok THEN "HTTP500" ELSE "HTTP401"
          /\ mpc \notin {"idle", "returned"} => delivered[1].kind = "HTTPException"

\* C12, its case: the merge raised after it had stored the value of a first
\* synapse, and the caller got the HTTPException 500.
C12_Witness ==
    /\ lpc = "HTTP500"
    /\ mpc = "AttributeError"
    /\ Len(synapses) = 2
    /\ \E t \in DOMAIN aggregated : aggregated[t] # None
    /\ delivered = <<Failure(500)>>

\* The list of tools of each variant, by its description: all the tools, the
\* single tool "Twitter Search", all the tools except "Twitter Search".
VariantTools(e) ==
    IF e = "search_links_web"
    THEN LET web(t) == t # "Twitter Search" IN SelectSeq(available_tools, web)
    ELSE IF e = "search_links_twitter" THEN <<"Twitter Search">>
    ELSE available_tools

\* C15 (Three pre-set tool lists), as claimed: each of the three endpoints
\* calls the merge with the list of its variant, whatever the request, and
\* the keys of the dictionary returned are the tools of the variant.
C15_PresetToolLists ==
    /\ lpc \in {"collect", "returned", "HTTP500"} => tools = VariantTools(endpoint)
    /\ lpc = "returned" => DOMAIN delivered[1].value = Range(VariantTools(endpoint))

(***************************************************************************)
(* Properties of the relay.                                                *)
(***************************************************************************)
RECURSIVE Flatten(_)
Flatten(ss) == IF Len(ss) = 0 THEN <<>> ELSE Head(ss) \o Flatten(Tail(ss))

\* The strings yielded for the chunks: all of out but the error event.
NormalOut == IF raised = <<>> THEN out ELSE SubSeq(out, 1, Len(out) - 1)

IsPrefix(p, s) == Len(p) <= Len(s) /\ SubSeq(s, 1, Len(p)) = p

IsSuffix(p, s) == Len(p) <= Len(s) /\ SubSeq(s, Len(s) - Len(p) + 1, Len(s)) = p

\* e is the event of the chunk c: it ends with a blank line, and before it
\* has one line `data: <line>` per line of c, a blank line given as a space.
IsChunkEvent(e, c) ==
    /\ IsSuffix(<<NL, NL>>, e)
    /\ LET got == Split(SubSeq(e, 1, Len(e) - 2))
           lines == Split(c)
       IN  /\ Len(got) = Len(lines)
           /\ \A k \in 1..Len(lines) :
                 got[k] = <<"d", "a", "t", "a", ":", " ">>
                             \o (IF lines[k] = <<>> THEN <<" ">> ELSE lines[k])

\* The events `data: <line>\n\n`, one per line of the chunk c.
EventPerLine(c) ==
    LET lines == Split(c)
    IN  [k \in 1..Len(lines) |->
            <<"d", "a", "t", "a", ":", " ">>
               \o (IF lines[k] = <<>> THEN <<" ">> ELSE lines[k]) \o <<NL, NL>>]

RECURSIVE EventsPerLineFrom(_)
EventsPerLineFrom(cs) ==
    IF Len(cs) = 0 THEN <<>> ELSE Flatten(EventPerLine(Head(cs))) \o EventsPerLineFrom(Tail(cs))

RECURSIVE JsonUnescape(_)
JsonUnescape(m) ==
    IF Len(m) = 0 THEN <<>>
    ELSE IF Len(m) >= 2 /\ m[1] = "\\" /\ m[2] = "n"
    THEN <<NL>> \o JsonUnescape(SubSeq(m, 3, Len(m)))
    ELSE <<Head(m)>> \o JsonUnescape(Tail(m))

ErrorOpening == <<"d", "a", "t", "a", ":", " ", "{", "\"", "e", "r", "r", "o", "r", "\"", ":", " ", "\"">>

ErrorClosing == <<"\"", "}", NL, NL>>

\* e is one event `data: {"error": "<text>"}\n\n` on a single line, and its
\* text is t.
IsErrorEvent(e, t) ==
    /\ IsPrefix(ErrorOpening, e)
    /\ IsSuffix(ErrorClosing, e)
    /\ Len(e) >= Len(ErrorOpening) + Len(ErrorClosing)
    /\ \A k \in 1..(Len(e) - 2) : e[k] # NL
    /\ JsonUnescape(SubSeq(e, Len(ErrorOpening) + 1, Len(e) - Len(ErrorClosing))) = t

\* C9 (Relay error containment): when the relay is over, it has yielded one
\* event per chunk the producer gave, in order, and then, if the producer
\* raised, exactly one error event with the exception's text, and nothing
\* else; if the producer ended normally, no error event.
C9_ErrorContainment ==
    rpc = "done" =>
        /\ \A i \in 1..Len(consumed) : i <= Len(out) /\ IsChunkEvent(out[i], consumed[i])
        /\ raised = <<>> =>
              /\ Len(out) = Len(consumed)
              /\ \A i \in 1..Len(out) : \A t \in ErrorTexts : ~IsErrorEvent(out[i], t)
        /\ raised # <<>> =>
              /\ Len(out) = Len(consumed) + 1
              /\ IsErrorEvent(out[Len(out)], raised[1])

\* C9, its case: the producer raised after two chunks, with a text that has
\* a line break, and the relay ended with three events.
C9_Witness ==
    /\ rpc = "done"
    /\ Len(consumed) = 2
    /\ raised = <<(<<"x", NL>>)>>
    /\ Len(out) = 3

\* The lines of the event e, its closing blank line left out.
EventLines(e) == Split(SubSeq(e, 1, Len(e) - 2))

\* The chunk an event was made of: the payloads of its `data: ` lines, a
\* single space read as a blank line, joined by line breaks.
PayloadOf(line) ==
    LET p == SubSeq(line, 7, Len(line)) IN IF p = <<" ">> THEN <<>> ELSE p

ChunkOf(e) ==
    LET lines == EventLines(e)
    IN  Join([k \in 1..Len(lines) |-> PayloadOf(lines[k])], <<NL>>)

\* C19 (Relay ordering): at every moment of a query the strings yielded for
\* the chunks are as many as the chunks the producer gave (none held back,
\* dropped or sent twice), and the i-th of them is the event of the i-th
\* chunk, so the events of a chunk come before those of the next one, in the
\* order of arrival; an error event only comes after them.
C19_RelayOrdering ==
    rpc # "idle" =>
        /\ Len(NormalOut) = Len(consumed)
        /\ \A i \in 1..Len(consumed) : ChunkOf(NormalOut[i]) = consumed[i]
        /\ merged_chunks = Flatten(consumed)
        /\ raised # <<>> => Len(out) = Len(consumed) + 1

\* C19, its case: the producer gave two different chunks, "x" then "\nx", and
\* then raised.
C19_Witness ==
    /\ consumed = <<(<<"x">>), (<<NL, "x">>)>>
    /\ raised # <<>>
    /\ Len(out) = 3

\* C20 (No empty payload): every line of every event the relay yields, for
\* any chunk (the empty chunk, chunks that begin or end with a line break or
\* have two in a row) and for the error event, is `data: ` followed by at
\* least one character; a blank line of a chunk goes out as `data: ` and a
\* single space.
C20_NoEmptyPayload ==
    \A i \in 1..Len(out) :
        /\ IsSuffix(<<NL, NL>>, out[i])
        /\ LET lines == EventLines(out[i])
           IN  \A k \in 1..Len(lines) :
                  /\ IsPrefix(<<"d", "a", "t", "a", ":", " ">>, lines[k])
                  /\ Len(lines[k]) > Len(<<"d", "a", "t", "a", ":", " ">>)
        /\ (i <= Len(consumed) /\ consumed[i] = <<>>) =>
              out[i] = <<"d", "a", "t", "a", ":", " ", " ", NL, NL>>

\* C20, its case: the producer gave the empty chunk and the chunk "\nx\n\n",
\* which begins with a line break and ends with two.
C20_Witness ==
    /\ Len(consumed) = 2
    /\ Len(out) >= 2
    /\ consumed[1] = <<>>
    /\ consumed[2] = <<NL, "x", NL, NL>>

=============================================================================
